---- MODULE Spec2Model ----
(***************************************************************************)
(* Model of the GitHub repository knowledge-graph pipeline:                *)
(*   fetch_repos.py   make_request, get_top_repos, get_repo_data, main     *)
(*   rule_extract.py  RuleExtractor                                        *)
(*   llm_extract.py   LLMExtractor                                         *)
(* Text is modelled as sequences of words/tokens, Python None as the       *)
(* sentinel None, f-strings as tuples of their parts.                      *)
(***************************************************************************)
EXTENDS Integers, Sequences, FiniteSets, TLC

VARIABLES
    mr,      \* frame of a stand-alone make_request call
    server,  \* what the GitHub API holds (search listing, per-repository data)
    top,     \* frame of get_top_repos
    grd,     \* frame of get_repo_data
    hist,    \* history of the requests issued (observation only)
    mainf,   \* frame of fetch_repos.main
    raw,     \* the data/raw directory: folder name -> files
    rule,    \* the RuleExtractor object and its position in run()
    llm      \* the LLMExtractor object and its position in run()

vars == <<mr, server, top, grd, hist, mainf, raw, rule, llm>>

----------------------------------------------------------------------------
(* Bounds *)
MaxRetries == 4     \* largest max_retries passed to a stand-alone make_request
MaxItems   == 4     \* largest number of items a paginated endpoint holds
MaxPerPage == 2     \* small page sizes tried besides the source's 100
MaxLimit   == 5     \* largest limit passed to a stand-alone get_top_repos

(* Program constants *)
default_max_retries == 3      \* make_request(max_retries=3)
per_page_default    == 100    \* per_page = 100 / per_page=100 in the URLs
limit_default       == 200    \* get_top_repos(limit=200)

None == "__None__"            \* Python's None

Min(a, b) == IF a < b THEN a ELSE b

Prefix(s, n) == SubSeq(s, 1, Min(n, Len(s)))

Range(s) == {s[i] : i \in 1..Len(s)}

----------------------------------------------------------------------------
(* requests.get: what one GET attempt can do *)
Resp(s) == [kind |-> "response", status |-> s]
Exc(e)  == [kind |-> e, status |-> 0]
NoResponse == [kind |-> "None", status |-> 0]

Transient == {"ConnectionError", "Timeout"}

Outcomes == {Resp(200), Resp(404), Exc("Timeout"), Exc("ConnectionError"),
             Exc("RequestException")}

(* attempt_step with the last retry dropped: gives up one attempt early *)
attempt_step_early_raise(attempt, max_retries, outcome) ==
    IF outcome.kind = "response"
    THEN [ctl |-> "return", sleep |-> 0]
    ELSE IF outcome.kind \in Transient
         THEN IF attempt < max_retries - 2
              THEN [ctl |-> "retry", sleep |-> 2 ^ attempt]
              ELSE [ctl |-> "raise", sleep |-> 0]
         ELSE [ctl |-> "raise", sleep |-> 0]

(* attempt_step with a linear delay, 2 * attempt, in place of 2 ** attempt *)
attempt_step_linear_backoff(attempt, max_retries, outcome) ==
    IF outcome.kind = "response"
    THEN [ctl |-> "return", sleep |-> 0]
    ELSE IF outcome.kind \in Transient
         THEN IF attempt < max_retries - 1
              THEN [ctl |-> "retry", sleep |-> 2 * attempt]
              ELSE [ctl |-> "raise", sleep |-> 0]
         ELSE [ctl |-> "raise", sleep |-> 0]

(* make_request, body of the for loop: the try block and the except clause *)
attempt_step(attempt, max_retries, outcome) ==
    IF outcome.kind = "response"
    THEN [ctl |-> "return", sleep |-> 0]
    ELSE IF outcome.kind \in Transient
         THEN IF attempt < max_retries - 1
              THEN [ctl |-> "retry", sleep |-> 2 ^ attempt]
              ELSE [ctl |-> "raise", sleep |-> 0]
         ELSE [ctl |-> "raise", sleep |-> 0]

(* make_request as one call: outs[i] is what the i-th GET does *)
RECURSIVE request_loop(_, _, _, _)
request_loop(outs, max_retries, attempt, sleeps) ==
    IF attempt >= max_retries \/ attempt >= Len(outs)
    THEN [ctl |-> "return", value |-> NoResponse, attempts |-> attempt,
          sleeps |-> sleeps]
    ELSE LET o  == outs[attempt + 1]
             st == attempt_step(attempt, max_retries, o)
         IN  IF st.ctl = "retry"
             THEN request_loop(outs, max_retries, attempt + 1,
                               Append(sleeps, st.sleep))
             ELSE [ctl |-> st.ctl, value |-> o, attempts |-> attempt + 1,
                   sleeps |-> sleeps]

make_request(outs, max_retries) == request_loop(outs, max_retries, 0, <<>>)

(* The scripts a call with the default max_retries can consume: transient   *)
(* failures, then either a final outcome or the last allowed attempt.       *)
Scripts ==
    {s \in UNION {[1..n -> Outcomes] : n \in 1..default_max_retries} :
        /\ \A i \in 1..(Len(s) - 1) : s[i].kind \in Transient
        /\ (s[Len(s)].kind \in Transient => Len(s) = default_max_retries)}

Raised(r) == r.ctl = "raise"
Status(r) == r.value.status
FirstTryOk(r) == r.ctl = "return" /\ r.attempts = 1 /\ Status(r) = 200

----------------------------------------------------------------------------
(* Stand-alone make_request, attempt by attempt *)
mr_idle == [pc |-> "idle", max_retries |-> 0, attempt |-> 0,
            outcomes |-> <<>>, sleeps |-> <<>>, result |-> NoResponse]

make_request_attempt ==
    /\ mr.pc = "loop"
    /\ mr.attempt < mr.max_retries
    /\ \E o \in Outcomes :
         LET st == attempt_step(mr.attempt, mr.max_retries, o) IN
         mr' = IF st.ctl = "retry"
               THEN [mr EXCEPT !.attempt = @ + 1,
                               !.outcomes = Append(@, o),
                               !.sleeps = Append(@, st.sleep)]
               ELSE [mr EXCEPT !.pc = IF st.ctl = "return" THEN "returned"
                                      ELSE "raised",
                               !.attempt = @ + 1,
                               !.outcomes = Append(@, o),
                               !.result = o]
    /\ UNCHANGED <<server, top, grd, hist, mainf, raw, rule, llm>>

(* range(max_retries) is exhausted without a return or a raise *)
make_request_fallthrough ==
    /\ mr.pc = "loop"
    /\ mr.attempt >= mr.max_retries
    /\ mr' = [mr EXCEPT !.pc = "returned", !.result = NoResponse]
    /\ UNCHANGED <<server, top, grd, hist, mainf, raw, rule, llm>>

----------------------------------------------------------------------------
(* The GitHub API as the program sees it *)

(* page `page` of a listing served `per_page` items at a time *)
ServerPage(items, page, per_page) ==
    LET lo == (page - 1) * per_page + 1
        hi == Min(page * per_page, Len(items))
    IN  IF lo > hi THEN <<>> ELSE SubSeq(items, lo, hi)

RepoNames == <<"foo", "bar", "baz", "qux", "quux", "corge", "grault">>
Logins    == <<"alice", "bob", "carol", "dave", "erin", "frank", "grace">>
TagNames  == <<"v1.0.0", "v1.1.0", "v2.0.0", "v2.1.0", "v3.0.0", "v3.1.0",
               "v4.0.0">>

SearchItem(i) == [owner |-> "acme", name |-> RepoNames[i]]
SearchListing(k) == [i \in 1..k |-> SearchItem(i)]

RepoKey(owner, repo) == <<owner, repo>>

(* JSON of /repos/{owner}/{repo} plus what the other endpoints hold.       *)
(* html_url = <<>> stands for a response without that key.                 *)
Profiles ==
    { [stargazers_count |-> 5, license |-> [present |-> TRUE, name |-> "MIT"],
       language |-> "Python", topics |-> <<"ml">>, html_url |-> <<"https://x">>,
       languages |-> <<"Python">>, readme |-> <<"intro", "v1.0.0">>,
       contributors |-> <<"alice">>, releases |-> <<"v1.0.0">>],
      [stargazers_count |-> 0, license |-> [present |-> FALSE, name |-> None],
       language |-> None, topics |-> <<>>, html_url |-> <<>>,
       languages |-> <<>>, readme |-> <<>>,
       contributors |-> <<>>, releases |-> <<>>],
      [stargazers_count |-> 12,
       license |-> [present |-> TRUE, name |-> "GPL-3.0"],
       language |-> "Go", topics |-> <<"web", "ml">>,
       html_url |-> <<"https://y">>, languages |-> <<"Go", "C">>,
       readme |-> <<"see", "2.1.0", "and", "v1.0.0", "2.1.0">>,
       contributors |-> <<"bob", "carol">>, releases |-> <<"v2.0.0">>] }

RepoApi(profile, contributors, releases) ==
    [repo_data |-> [stargazers_count |-> profile.stargazers_count,
                    license |-> profile.license,
                    language |-> profile.language,
                    topics |-> profile.topics,
                    html_url |-> profile.html_url],
     readme |-> profile.readme,
     languages |-> profile.languages,
     contributors |-> contributors,
     releases |-> releases]

empty_repo_data == [stargazers_count |-> 0,
                    license |-> [present |-> FALSE, name |-> None],
                    language |-> None, topics |-> <<>>, html_url |-> <<>>]

----------------------------------------------------------------------------
(* History of one run: requests issued and which fetch failed *)
hist_top0 == [top_requests |-> 0, top_ok |-> TRUE]

hist_call0 == [meta_failed |-> FALSE, readme_failed |-> FALSE,
               lang_failed |-> FALSE,
               contrib_requests |-> 0, contrib_ok |-> TRUE,
               contrib_fail_page |-> 0,
               release_requests |-> 0, release_ok |-> TRUE,
               release_fail_page |-> 0]

hist0 == [top |-> hist_top0, call |-> hist_call0, failed |-> {}]

----------------------------------------------------------------------------
(* get_top_repos *)
top_idle == [pc |-> "idle", repos |-> <<>>, page |-> 1, per_page |-> 0,
             limit |-> 0, result |-> <<>>]

top_call(limit, per_page) ==
    [pc |-> "loop", repos |-> <<>>, page |-> 1, per_page |-> per_page,
     limit |-> limit, result |-> <<>>]

(* one evaluation of the while condition and, when it holds, of the body *)
get_top_repos(t, r) ==
    LET exit(repos) == [t EXCEPT !.pc = "done", !.repos = repos,
                                 !.result = Prefix(repos, t.limit)]
    IN  IF ~(Len(t.repos) < t.limit) THEN exit(t.repos)
        ELSE IF Raised(r) THEN exit(t.repos)
        ELSE IF Status(r) # 200 THEN exit(t.repos)
        ELSE LET items == ServerPage(server.search, t.page, t.per_page)
                 repos == t.repos \o items
             IN  IF Len(items) < t.per_page THEN exit(repos)
                 ELSE [t EXCEPT !.repos = repos, !.page = @ + 1]

get_top_repos_step ==
    /\ top.pc = "loop"
    /\ \E outs \in Scripts :
         LET r == make_request(outs, default_max_retries)
             asked == Len(top.repos) < top.limit
         IN  /\ top' = get_top_repos(top, r)
             /\ hist' = IF asked
                        THEN [hist EXCEPT !.top.top_requests = @ + 1,
                                          !.top.top_ok = @ /\ FirstTryOk(r)]
                        ELSE hist
    /\ UNCHANGED <<mr, server, grd, mainf, raw, rule, llm>>

----------------------------------------------------------------------------
(* get_repo_data *)
empty_metadata == [name |-> None, stars |-> 0, contributors |-> <<>>,
                   license |-> None, url |-> <<>>, primary_language |-> None,
                   languages |-> <<>>, topics |-> <<>>, releases |-> <<>>]

(* the pair get_repo_data returns; is_none tells a None first component *)
NoneResult == [is_none |-> TRUE, metadata |-> empty_metadata, readme |-> <<>>]

grd_idle == [pc |-> "idle", owner |-> None, repo |-> None, per_page |-> 0,
             page |-> 1, repo_data |-> empty_repo_data,
             readme_content |-> <<>>, contributors |-> <<>>,
             languages |-> <<>>, releases |-> <<>>, result |-> NoneResult]

grd_call(owner, repo, per_page) ==
    [grd_idle EXCEPT !.pc = "meta", !.owner = owner, !.repo = repo,
                     !.per_page = per_page]

Api(g) == server.api[RepoKey(g.owner, g.repo)]

(* primary fetch: /repos/{owner}/{repo} *)
fetch_repo_info(g, r) ==
    IF Raised(r) THEN [g EXCEPT !.pc = "done", !.result = NoneResult]
    ELSE IF Status(r) # 200
         THEN [g EXCEPT !.pc = "done", !.result = NoneResult]
         ELSE [g EXCEPT !.pc = "readme", !.repo_data = Api(g).repo_data]

(* README listing: readme_response is None after an exception *)
fetch_readme(g, r) ==
    IF ~Raised(r) /\ Status(r) = 200
    THEN [g EXCEPT !.pc = "download"]
    ELSE [g EXCEPT !.pc = "contributors", !.page = 1]

(* README download through download_url *)
download_readme(g, r) ==
    IF ~Raised(r) /\ Status(r) = 200
    THEN [g EXCEPT !.pc = "contributors", !.page = 1,
                   !.readme_content = Api(g).readme]
    ELSE [g EXCEPT !.pc = "contributors", !.page = 1]

(* contributors_loop that throws the collected logins away on an error *)
contributors_loop_discard(g, r) ==
    LET brk == [g EXCEPT !.pc = "languages"] IN
    IF Raised(r) THEN [brk EXCEPT !.contributors = <<>>]
    ELSE IF Status(r) # 200 THEN [brk EXCEPT !.contributors = <<>>]
    ELSE LET data == ServerPage(Api(g).contributors, g.page, g.per_page) IN
         IF data = <<>> THEN brk
         ELSE [g EXCEPT !.contributors = @ \o data, !.page = @ + 1]

(* one pass of the contributors while-loop *)
contributors_loop(g, r) ==
    LET brk == [g EXCEPT !.pc = "languages"] IN
    IF Raised(r) THEN brk
    ELSE IF Status(r) # 200 THEN brk
    ELSE LET data == ServerPage(Api(g).contributors, g.page, g.per_page) IN
         IF data = <<>> THEN brk
         ELSE [g EXCEPT !.contributors = @ \o data, !.page = @ + 1]

(* languages endpoint: keys of the mapping, [] on any failure *)
fetch_languages(g, r) ==
    IF ~Raised(r) /\ Status(r) = 200
    THEN [g EXCEPT !.pc = "releases", !.page = 1,
                   !.languages = Api(g).languages]
    ELSE [g EXCEPT !.pc = "releases", !.page = 1, !.languages = <<>>]

license_type(repo_data) ==
    IF repo_data.license.present THEN repo_data.license.name ELSE None

build_metadata(g) ==
    [name |-> g.repo,
     stars |-> g.repo_data.stargazers_count,
     contributors |-> g.contributors,
     license |-> license_type(g.repo_data),
     url |-> IF g.repo_data.html_url # <<>> THEN g.repo_data.html_url
             ELSE <<"https://github.com/", g.owner, "/", g.repo>>,
     primary_language |-> g.repo_data.language,
     languages |-> g.languages,
     topics |-> g.repo_data.topics,
     releases |-> g.releases]

(* one pass of the releases while-loop; leaving it builds the result *)
releases_loop(g, r) ==
    LET brk == [g EXCEPT !.pc = "done",
                         !.result = [is_none |-> FALSE,
                                     metadata |-> build_metadata(g),
                                     readme |-> g.readme_content]]
    IN
    IF Raised(r) THEN brk
    ELSE IF Status(r) # 200 THEN brk
    ELSE LET data == ServerPage(Api(g).releases, g.page, g.per_page) IN
         IF data = <<>> THEN brk
         ELSE [g EXCEPT !.releases = @ \o data, !.page = @ + 1]

Failed(r) == Raised(r) \/ Status(r) # 200

get_repo_data_info ==
    /\ grd.pc = "meta"
    /\ \E outs \in Scripts :
         LET r == make_request(outs, default_max_retries) IN
         /\ grd' = fetch_repo_info(grd, r)
         /\ hist' = [hist EXCEPT !.call.meta_failed = Failed(r)]
    /\ UNCHANGED <<mr, server, top, mainf, raw, rule, llm>>

get_repo_data_readme ==
    /\ grd.pc = "readme"
    /\ \E outs \in Scripts :
         LET r == make_request(outs, default_max_retries) IN
         /\ grd' = fetch_readme(grd, r)
         /\ hist' = [hist EXCEPT !.call.readme_failed = Failed(r)]
    /\ UNCHANGED <<mr, server, top, mainf, raw, rule, llm>>

get_repo_data_download ==
    /\ grd.pc = "download"
    /\ \E outs \in Scripts :
         LET r == make_request(outs, default_max_retries) IN
         /\ grd' = download_readme(grd, r)
         /\ hist' = [hist EXCEPT !.call.readme_failed = Failed(r)]
    /\ UNCHANGED <<mr, server, top, mainf, raw, rule, llm>>

get_repo_data_contributors ==
    /\ grd.pc = "contributors"
    /\ \E outs \in Scripts :
         LET r == make_request(outs, default_max_retries) IN
         /\ grd' = contributors_loop(grd, r)
         /\ hist' = [hist EXCEPT
                !.call.contrib_requests = @ + 1,
                !.call.contrib_ok = @ /\ FirstTryOk(r),
                !.call.contrib_fail_page = IF Failed(r) THEN grd.page ELSE @]
    /\ UNCHANGED <<mr, server, top, mainf, raw, rule, llm>>

get_repo_data_languages ==
    /\ grd.pc = "languages"
    /\ \E outs \in Scripts :
         LET r == make_request(outs, default_max_retries) IN
         /\ grd' = fetch_languages(grd, r)
         /\ hist' = [hist EXCEPT !.call.lang_failed = Failed(r)]
    /\ UNCHANGED <<mr, server, top, mainf, raw, rule, llm>>

get_repo_data_releases ==
    /\ grd.pc = "releases"
    /\ \E outs \in Scripts :
         LET r == make_request(outs, default_max_retries) IN
         /\ grd' = releases_loop(grd, r)
         /\ hist' = [hist EXCEPT
                !.call.release_requests = @ + 1,
                !.call.release_ok = @ /\ FirstTryOk(r),
                !.call.release_fail_page = IF Failed(r) THEN grd.page ELSE @]
    /\ UNCHANGED <<mr, server, top, mainf, raw, rule, llm>>

get_repo_data_step ==
    \/ get_repo_data_info
    \/ get_repo_data_readme
    \/ get_repo_data_download
    \/ get_repo_data_contributors
    \/ get_repo_data_languages
    \/ get_repo_data_releases

----------------------------------------------------------------------------
(* fetch_repos.main and the data/raw directory *)
FolderName(owner, repo_name) == <<owner, "_", repo_name>>

(* a file is <<>> when absent and <<content>> when present *)
empty_folder == [metadata_json |-> <<>>, readme_md |-> <<>>]

mkdir(fs, folder) ==
    IF folder \in DOMAIN fs THEN fs
    ELSE [f \in DOMAIN fs \cup {folder} |->
             IF f = folder THEN empty_folder ELSE fs[f]]

mainf_idle == [pc |-> "idle", repos |-> <<>>, i |-> 1]

(* repos = get_top_repos() *)
main_start ==
    /\ mainf.pc = "start"
    /\ mainf' = [mainf EXCEPT !.pc = "top"]
    /\ top' = top_call(limit_default, per_page_default)
    /\ UNCHANGED <<mr, server, grd, hist, raw, rule, llm>>

main_got_repos ==
    /\ mainf.pc = "top"
    /\ top.pc = "done"
    /\ mainf' = [mainf EXCEPT !.pc = "loop", !.repos = top.result, !.i = 1]
    /\ UNCHANGED <<mr, server, top, grd, hist, raw, rule, llm>>

(* top of the for loop: the folder is made, then get_repo_data is called *)
main_loop_head ==
    /\ mainf.pc = "loop"
    /\ IF mainf.i > Len(mainf.repos)
       THEN /\ mainf' = [mainf EXCEPT !.pc = "done"]
            /\ UNCHANGED <<grd, raw, hist>>
       ELSE LET repo == mainf.repos[mainf.i]
                owner == repo.owner
                repo_name == repo.name
            IN  /\ raw' = mkdir(raw, FolderName(owner, repo_name))
                /\ grd' = grd_call(owner, repo_name, per_page_default)
                /\ hist' = [hist EXCEPT !.call = hist_call0]
                /\ mainf' = [mainf EXCEPT !.pc = "call"]
    /\ UNCHANGED <<mr, server, top, rule, llm>>

(* rest of the loop body once get_repo_data has returned *)
save_repo(fs, folder, result) ==
    IF result.is_none THEN fs
    ELSE [fs EXCEPT ![folder] = [metadata_json |-> <<result.metadata>>,
                                 readme_md |-> <<result.readme>>]]

main_loop_tail ==
    /\ mainf.pc = "call"
    /\ grd.pc = "done"
    /\ LET folder == FolderName(grd.owner, grd.repo) IN
       /\ raw' = save_repo(raw, folder, grd.result)
       /\ hist' = IF grd.result.is_none
                  THEN [hist EXCEPT !.failed = @ \cup {folder}]
                  ELSE hist
    /\ mainf' = [mainf EXCEPT !.pc = "loop", !.i = @ + 1]
    /\ grd' = grd_idle
    /\ UNCHANGED <<mr, server, top, rule, llm>>

----------------------------------------------------------------------------
(* rule_extract.py: RuleExtractor *)

(* dict.get(key, default) on a dict modelled as a record *)
Get(d, key, default) == IF key \in DOMAIN d THEN d[key] ELSE default

(* words that version_pattern  v?\d+\.\d+\.\d+  matches *)
VersionWords == Range(TagNames) \cup {"2.1.0", "1.2.3"}

(* the object after __init__, with the position in run() *)
rule_init == [pc |-> "start", todo |-> {},
              repositories |-> {}, licenses |-> {}, languages |-> {},
              tags |-> {}, releases |-> {},
              candidate_triples |-> <<>>,
              entity_files |-> [repositories |-> {}, licenses |-> {},
                                languages |-> {}, tags |-> {},
                                releases |-> {}],
              triples_csv |-> <<>>]

rule_idle == [rule_init EXCEPT !.pc = "idle"]

extract_from_metadata(metadata, repo_name) ==
    [repository |-> repo_name,
     stars |-> Get(metadata, "stars", 0),
     contributors |-> Get(metadata, "contributors", <<>>),
     license |-> Get(metadata, "license", ""),
     tags |-> Get(metadata, "topics", <<>>),
     releases |-> Get(metadata, "releases", <<>>)]

extract_from_readme(content) ==
    [tags |-> <<>>,
     releases |-> {content[i] : i \in {j \in 1..Len(content) :
                                          content[j] \in VersionWords}}]

(* _collect_entities that assigns the tags instead of adding them *)
_collect_entities_assign(x, entities) ==
    LET license == Get(entities, "license", None) IN
    [x EXCEPT
       !.licenses  = IF license # None /\ license # ""
                     THEN @ \cup {license} ELSE @,
       !.languages = @ \cup Range(Get(entities, "languages", <<>>)),
       !.tags      = Range(Get(entities, "tags", <<>>)),
       !.releases  = @ \cup Range(Get(entities, "releases", <<>>))]

_collect_entities(x, entities) ==
    LET license == Get(entities, "license", None) IN
    [x EXCEPT
       !.licenses  = IF license # None /\ license # ""
                     THEN @ \cup {license} ELSE @,
       !.languages = @ \cup Range(Get(entities, "languages", <<>>)),
       !.tags      = @ \cup Range(Get(entities, "tags", <<>>)),
       !.releases  = @ \cup Range(Get(entities, "releases", <<>>))]

(* body of the for loop of process_repositories for the folder repo_dir *)
process_repository(x, fs, repo_dir) ==
    LET x1 == [x EXCEPT !.repositories = @ \cup {repo_dir}]
        x2 == IF fs[repo_dir].metadata_json # <<>>
              THEN _collect_entities(x1,
                      extract_from_metadata(fs[repo_dir].metadata_json[1],
                                            repo_dir))
              ELSE x1
        x3 == IF fs[repo_dir].readme_md # <<>>
              THEN LET readme_entities ==
                          extract_from_readme(fs[repo_dir].readme_md[1])
                   IN  [x2 EXCEPT
                          !.tags = @ \cup Range(readme_entities.tags),
                          !.releases = @ \cup readme_entities.releases]
              ELSE x2
    IN  x3

(* rows written to {entity_type}_entities.csv: sorted, empty names skipped; *)
(* a sorted list without repeats is given by its set                        *)
save_entities(x) ==
    [x EXCEPT !.entity_files =
        [repositories |-> {e \in x.repositories : e # <<>>},
         licenses  |-> {e \in x.licenses : e # ""},
         languages |-> {e \in x.languages : e # ""},
         tags      |-> {e \in x.tags : e # ""},
         releases  |-> {e \in x.releases : e # ""}]]

RECURSIVE SetToSeq(_)
SetToSeq(S) == IF S = {} THEN <<>>
               ELSE LET e == CHOOSE e \in S : TRUE
                    IN  <<e>> \o SetToSeq(S \ {e})

triples_of(x, repo) ==
    [i \in 1..Cardinality(x.languages) |->
        <<repo, "uses_language", SetToSeq(x.languages)[i]>>]
    \o [i \in 1..Cardinality(x.licenses) |->
        <<repo, "has_license", SetToSeq(x.licenses)[i]>>]
    \o [i \in 1..Cardinality(x.tags) |->
        <<repo, "has_tag", SetToSeq(x.tags)[i]>>]
    \o [i \in 1..Cardinality(x.releases) |->
        <<repo, "has_release", SetToSeq(x.releases)[i]>>]

RECURSIVE triples_for(_, _)
triples_for(x, order) ==
    IF order = <<>> THEN <<>>
    ELSE triples_of(x, Head(order)) \o triples_for(x, Tail(order))

(* generate_candidate_triples with _save_triples; order is the order in    *)
(* which the set self.repositories is iterated                              *)
generate_candidate_triples(x, order) ==
    LET triples == x.candidate_triples \o triples_for(x, order)
    IN  [x EXCEPT !.candidate_triples = triples, !.triples_csv = triples]

Orders(S) == {o \in [1..Cardinality(S) -> S] : Range(o) = S}

RuleExtractor_run_start ==
    /\ rule.pc = "start"
    /\ mainf.pc = "done"
    /\ rule' = [rule EXCEPT !.pc = "process", !.todo = DOMAIN raw]
    /\ UNCHANGED <<mr, server, top, grd, hist, mainf, raw, llm>>

(* os.listdir gives the folders in arbitrary order *)
RuleExtractor_process_repositories ==
    /\ rule.pc = "process"
    /\ \E repo_dir \in rule.todo :
         rule' = [process_repository(rule, raw, repo_dir)
                     EXCEPT !.todo = @ \ {repo_dir}]
    /\ UNCHANGED <<mr, server, top, grd, hist, mainf, raw, llm>>

RuleExtractor_save_entities ==
    /\ rule.pc = "process"
    /\ rule.todo = {}
    /\ rule' = [save_entities(rule) EXCEPT !.pc = "generate"]
    /\ UNCHANGED <<mr, server, top, grd, hist, mainf, raw, llm>>

RuleExtractor_generate_candidate_triples ==
    /\ rule.pc = "generate"
    /\ \E order \in Orders(rule.repositories) :
         rule' = [generate_candidate_triples(rule, order)
                     EXCEPT !.pc = "done"]
    /\ UNCHANGED <<mr, server, top, grd, hist, mainf, raw, llm>>

----------------------------------------------------------------------------
(* llm_extract.py: LLMExtractor *)

(* Completion text as tokens [k, v]: punctuation "p", JSON string "str",   *)
(* number "num", literal "lit", whitespace "ws", a code fence "fence", a  *)
(* run of prose "word".                                                    *)
Tok(k, v) == [k |-> k, v |-> v]
P(c)  == Tok("p", c)
Str(c) == Tok("str", c)
WS    == Tok("ws", " ")
Fence == Tok("fence", "triple backtick")
Word(c) == Tok("word", c)

(* JSON values *)
JScalar(t, s) == [t |-> t, s |-> s, keys |-> <<>>, items |-> <<>>]
JArr(items)   == [t |-> "arr", s |-> "", keys |-> <<>>, items |-> items]
JObj(keys, items) == [t |-> "obj", s |-> "", keys |-> keys, items |-> items]
EmptyDict == JObj(<<>>, <<>>)

ParseFail == [ok |-> FALSE, val |-> EmptyDict, next |-> 0]

RECURSIVE SkipWs(_, _)
SkipWs(toks, i) ==
    IF i <= Len(toks) /\ toks[i].k = "ws" THEN SkipWs(toks, i + 1) ELSE i

IsP(toks, i, c) == i <= Len(toks) /\ toks[i] = P(c)

RECURSIVE parse_value(_, _), parse_elems(_, _, _), parse_members(_, _, _, _)
parse_value(toks, i) ==
    IF i > Len(toks) THEN ParseFail
    ELSE IF toks[i].k \in {"str", "num", "lit"}
         THEN [ok |-> TRUE, val |-> JScalar(toks[i].k, toks[i].v),
               next |-> i + 1]
    ELSE IF toks[i] = P("[")
         THEN LET j == SkipWs(toks, i + 1) IN
              IF IsP(toks, j, "]")
              THEN [ok |-> TRUE, val |-> JArr(<<>>), next |-> j + 1]
              ELSE parse_elems(toks, j, <<>>)
    ELSE IF toks[i] = P("{")
         THEN LET j == SkipWs(toks, i + 1) IN
              IF IsP(toks, j, "}")
              THEN [ok |-> TRUE, val |-> EmptyDict, next |-> j + 1]
              ELSE parse_members(toks, j, <<>>, <<>>)
    ELSE ParseFail

parse_elems(toks, i, acc) ==
    LET v == parse_value(toks, i) IN
    IF ~v.ok THEN ParseFail
    ELSE LET j == SkipWs(toks, v.next) IN
         IF IsP(toks, j, ",")
         THEN parse_elems(toks, SkipWs(toks, j + 1), Append(acc, v.val))
         ELSE IF IsP(toks, j, "]")
              THEN [ok |-> TRUE, val |-> JArr(Append(acc, v.val)),
                    next |-> j + 1]
              ELSE ParseFail

parse_members(toks, i, keys, items) ==
    IF ~(i <= Len(toks) /\ toks[i].k = "str") THEN ParseFail
    ELSE LET c == SkipWs(toks, i + 1) IN
         IF ~IsP(toks, c, ":") THEN ParseFail
         ELSE LET v == parse_value(toks, SkipWs(toks, c + 1)) IN
              IF ~v.ok THEN ParseFail
              ELSE LET j == SkipWs(toks, v.next)
                       ks == Append(keys, toks[i].v)
                       vs == Append(items, v.val)
                   IN  IF IsP(toks, j, ",")
                       THEN parse_members(toks, SkipWs(toks, j + 1), ks, vs)
                       ELSE IF IsP(toks, j, "}")
                            THEN [ok |-> TRUE, val |-> JObj(ks, vs),
                                  next |-> j + 1]
                            ELSE ParseFail

(* json.loads: one value, whitespace around it, nothing else *)
json_loads(toks) ==
    LET v == parse_value(toks, SkipWs(toks, 1)) IN
    IF v.ok /\ SkipWs(toks, v.next) = Len(toks) + 1 THEN v ELSE ParseFail

(* str.strip() *)
RECURSIVE strip(_)
strip(toks) ==
    IF toks = <<>> THEN <<>>
    ELSE IF Head(toks).k = "ws" THEN strip(Tail(toks))
    ELSE IF toks[Len(toks)].k = "ws" THEN strip(SubSeq(toks, 1, Len(toks) - 1))
    ELSE toks

Drop(toks, n) == SubSeq(toks, n + 1, Len(toks))

(* removal of a json code-fence wrapping at the two ends of the text *)
strip_fences(content) ==
    LET c0 == strip(content)
        c1 == IF Len(c0) >= 2 /\ c0[1] = Fence /\ c0[2] = Word("json")
              THEN Drop(c0, 2) ELSE c0
        c2 == IF Len(c1) >= 1 /\ c1[1] = Fence THEN Drop(c1, 1) ELSE c1
        c3 == IF Len(c2) >= 1 /\ c2[Len(c2)] = Fence
              THEN SubSeq(c2, 1, Len(c2) - 1) ELSE c2
    IN  strip(c3)

(* what the chat-completion call does: raise, or give a message whose      *)
(* content is None ("none") or text                                        *)
ApiError == [kind |-> "exception", content |-> <<>>]
NoContent == [kind |-> "none", content |-> <<>>]
Completion(toks) == [kind |-> "completion", content |-> toks]

_extract_with_llm(available, outcome) ==
    IF ~available THEN EmptyDict
    ELSE IF outcome.kind = "exception" THEN EmptyDict
    ELSE IF outcome.kind = "none" \/ outcome.content = <<>> THEN EmptyDict
    ELSE LET extracted == json_loads(strip_fences(outcome.content)) IN
         IF extracted.ok THEN extracted.val ELSE EmptyDict

(* Python truth value of a parsed JSON value *)
Truthy(v) ==
    CASE v.t = "obj" -> v.keys # <<>>
      [] v.t = "arr" -> v.items # <<>>
      [] v.t = "str" -> v.s # ""
      [] v.t = "num" -> v.s # "0"
      [] OTHER       -> v.s = "true"

(* dict.get on a parsed JSON object: the last member with that key wins *)
JGet(obj, key, default) ==
    LET hits == {i \in 1..Len(obj.keys) : obj.keys[i] = key} IN
    IF hits = {} THEN default
    ELSE obj.items[CHOOSE i \in hits : \A j \in hits : j <= i]

RECURSIVE related_triples(_, _)
related_triples(repo_dir, related_repos) ==
    IF related_repos = <<>> THEN <<>>
    ELSE (IF Truthy(Head(related_repos))
          THEN <<<<repo_dir, "has_related_repository", Head(related_repos)>>>>
          ELSE <<>>)
         \o related_triples(repo_dir, Tail(related_repos))

(* the object after __init__, with the position in run(); triples_file is  *)
(* <<>> until llm_extracted_triples.csv is written, then <<rows>>          *)
llm_init(available) ==
    [pc |-> "start", available |-> available, todo |-> {},
     extracted_triples |-> <<>>, triples_file |-> <<>>,
     last |-> [repo_dir |-> <<>>, outcome |-> NoContent,
               returned |-> EmptyDict]]

llm_idle == [llm_init(FALSE) EXCEPT !.pc = "idle"]

(* body of the for loop of process_repositories for the folder repo_dir;   *)
(* .get on a value that is not a dict raises AttributeError, which nothing *)
(* in process_repositories or run catches                                  *)
llm_process_repository(x, fs, repo_dir, outcome) ==
    IF fs[repo_dir].readme_md = <<>> THEN x
    ELSE LET extracted == _extract_with_llm(x.available, outcome)
             x1 == [x EXCEPT !.last = [repo_dir |-> repo_dir,
                                       outcome |-> outcome,
                                       returned |-> extracted]]
         IN
         IF ~Truthy(extracted) THEN x1
         ELSE IF extracted.t # "obj" THEN [x1 EXCEPT !.pc = "crashed"]
         ELSE LET description == JGet(extracted, "description",
                                      JScalar("str", ""))
                  related_repos == JGet(extracted, "relatedRepository",
                                        JArr(<<>>))
                  t1 == IF Truthy(description)
                        THEN <<<<repo_dir, "has_description", description>>>>
                        ELSE <<>>
                  t2 == IF related_repos.t = "arr"
                        THEN related_triples(repo_dir, related_repos.items)
                        ELSE <<>>
              IN  [x1 EXCEPT !.extracted_triples = @ \o t1 \o t2]

save_triples(x) == [x EXCEPT !.triples_file = <<x.extracted_triples>>]

(* completions the model may give *)
Bodies ==
    { <<P("{"), Str("description"), P(":"), Str("a tool"), P(","), WS,
        Str("relatedRepository"), P(":"), P("["), Str("https://r"), P(","),
        Str(""), P("]"), P("}")>>,
      <<P("{"), Str("description"), P(":"), Str(""), P(","),
        Str("relatedRepository"), P(":"), Str("https://r"), P("}")>>,
      <<P("{"), P("}")>>,
      <<P("["), P("{"), Str("predicate"), P(":"), Str("developedBy"), P(","),
        Str("object"), P(":"), Str("X"), P("}"), P("]")>>,
      <<P("["), WS, P("]")>>,
      <<Tok("num", "5")>>,
      <<Tok("lit", "null")>>,
      <<P("{"), Str("description"), P(":")>>,
      <<>> }

Prefixes ==
    { <<>>,
      <<Fence, Word("json"), WS>>,
      <<Fence, WS>>,
      <<Word("Here is the result:"), WS, Fence, Word("json"), WS>>,
      <<WS>> }

Suffixes ==
    { <<>>,
      <<WS, Fence>>,
      <<WS, Fence, WS, Word("Hope this helps")>> }

ModelOutcomes ==
    {ApiError, NoContent}
    \cup {Completion(a \o b \o c) : a \in Prefixes, b \in Bodies, c \in Suffixes}

LLMExtractor_run_start ==
    /\ llm.pc = "start"
    /\ llm' = IF ~llm.available THEN [llm EXCEPT !.pc = "skipped"]
              ELSE [llm EXCEPT !.pc = "process", !.todo = DOMAIN raw]
    /\ UNCHANGED <<mr, server, top, grd, hist, mainf, raw, rule>>

(* os.listdir gives the folders in arbitrary order *)
LLMExtractor_process_repositories ==
    /\ llm.pc = "process"
    /\ \E repo_dir \in llm.todo, outcome \in ModelOutcomes :
         llm' = [llm_process_repository(llm, raw, repo_dir, outcome)
                    EXCEPT !.todo = @ \ {repo_dir}]
    /\ UNCHANGED <<mr, server, top, grd, hist, mainf, raw, rule>>

LLMExtractor_save_triples ==
    /\ llm.pc = "process"
    /\ llm.todo = {}
    /\ llm' = [save_triples(llm) EXCEPT !.pc = "done"]
    /\ UNCHANGED <<mr, server, top, grd, hist, mainf, raw, rule>>

----------------------------------------------------------------------------
(* Specifications *)

(* a stand-alone call make_request(url, headers, max_retries) *)
InitRequest ==
    /\ \E m \in 0..MaxRetries :
         mr = [mr_idle EXCEPT !.pc = "loop", !.max_retries = m]
    /\ server = [search |-> <<>>, api |-> <<>>]
    /\ top = top_idle /\ grd = grd_idle /\ hist = hist0
    /\ mainf = mainf_idle /\ raw = <<>>
    /\ rule = rule_idle /\ llm = llm_idle

NextRequest == make_request_attempt \/ make_request_fallthrough

SpecRequest == InitRequest /\ [][NextRequest]_vars

PageSizes == (1..MaxPerPage) \cup {per_page_default}

(* a stand-alone call of get_top_repos(limit) or get_repo_data(owner, repo) *)
(* against a server holding k items per listing                             *)
InitFetch ==
    /\ mr = mr_idle /\ mainf = mainf_idle /\ raw = <<>>
    /\ rule = rule_idle /\ llm = llm_idle /\ hist = hist0
    /\ \/ /\ \E k \in 0..MaxItems :
               server = [search |-> SearchListing(k), api |-> <<>>]
          /\ \E limit \in 0..MaxLimit, p \in PageSizes :
               top = top_call(limit, p)
          /\ grd = grd_idle
       \/ /\ \E profile \in Profiles, kc \in 0..MaxItems, kr \in 0..MaxItems :
               server = [search |-> <<>>,
                         api |-> (RepoKey("acme", "foo") :>
                                    RepoApi(profile, Prefix(Logins, kc),
                                            Prefix(TagNames, kr)))]
          /\ \E p \in PageSizes : grd = grd_call("acme", "foo", p)
          /\ top = top_idle

NextFetch == get_top_repos_step \/ get_repo_data_step

SpecFetch == InitFetch /\ [][NextFetch]_vars

(* fetch_repos.main followed by RuleExtractor.run on the same data/raw *)
PipelineRepos == {[owner |-> "acme", name |-> "foo"],
                  [owner |-> "octo", name |-> "bar"]}

PipelineListings ==
    {s \in UNION {[1..n -> PipelineRepos] : n \in 0..Cardinality(PipelineRepos)} :
        \A i, j \in 1..Len(s) : i # j => s[i] # s[j]}

InitPipeline ==
    /\ mr = mr_idle /\ top = top_idle /\ grd = grd_idle /\ hist = hist0
    /\ mainf = [mainf_idle EXCEPT !.pc = "start"]
    /\ raw = <<>>
    /\ rule = rule_init /\ llm = llm_idle
    /\ \E listing \in PipelineListings,
          pf \in [{RepoKey(r.owner, r.name) : r \in PipelineRepos} -> Profiles] :
         server = [search |-> listing,
                   api |-> [k \in DOMAIN pf |->
                              RepoApi(pf[k], pf[k].contributors,
                                      pf[k].releases)]]

NextPipeline ==
    \/ main_start
    \/ get_top_repos_step
    \/ main_got_repos
    \/ main_loop_head
    \/ get_repo_data_step
    \/ main_loop_tail
    \/ RuleExtractor_run_start
    \/ RuleExtractor_process_repositories
    \/ RuleExtractor_save_entities
    \/ RuleExtractor_generate_candidate_triples

SpecPipeline == InitPipeline /\ [][NextPipeline]_vars

(* LLMExtractor.run over a data/raw directory that main has left behind *)
RawFolders ==
    {empty_folder}
    \cup {[metadata_json |-> <<[empty_metadata EXCEPT !.name = "x"]>>,
           readme_md |-> <<p.readme>>] : p \in Profiles}

InitLLM ==
    /\ mr = mr_idle /\ top = top_idle /\ grd = grd_idle /\ hist = hist0
    /\ mainf = mainf_idle /\ rule = rule_idle
    /\ server = [search |-> <<>>, api |-> <<>>]
    /\ \E names \in SUBSET {FolderName(r.owner, r.name) : r \in PipelineRepos} :
         raw \in [names -> RawFolders]
    /\ \E available \in BOOLEAN : llm = llm_init(available)

NextLLM ==
    \/ LLMExtractor_run_start
    \/ LLMExtractor_process_repositories
    \/ LLMExtractor_save_triples

SpecLLM == InitLLM /\ [][NextLLM]_vars

----------------------------------------------------------------------------
(* Properties *)

Ceil(k, p) == (k + p - 1) \div p

(* C1: with every request succeeding (and limit >= K for get_top_repos), a  *)
(* paginated loop over a listing of K items served P at a time returns     *)
(* exactly the K items and issues exactly ceil(K/P) requests.              *)
C1_PaginationRequests ==
    /\ (top.pc = "done" /\ hist.top.top_ok /\ top.limit >= Len(server.search))
         => /\ top.result = server.search
            /\ hist.top.top_requests = Ceil(Len(server.search), top.per_page)
    /\ (grd.pc = "done" /\ ~grd.result.is_none /\ hist.call.contrib_ok)
         => /\ grd.result.metadata.contributors = Api(grd).contributors
            /\ hist.call.contrib_requests =
                  Ceil(Len(Api(grd).contributors), grd.per_page)
    /\ (grd.pc = "done" /\ ~grd.result.is_none /\ hist.call.release_ok)
         => /\ grd.result.metadata.releases = Api(grd).releases
            /\ hist.call.release_requests =
                  Ceil(Len(Api(grd).releases), grd.per_page)

AllTransient(outs) == \A i \in 1..Len(outs) : outs[i].kind \in Transient

(* C2: when the first max_retries - 1 attempts fail with a timeout or a    *)
(* connection error the call is still trying, and when the final attempt   *)
(* then succeeds the call returns that response instead of raising.        *)
C2_RetryThenSuccess ==
    /\ (mr.pc # "idle" /\ AllTransient(mr.outcomes)
           /\ Len(mr.outcomes) < mr.max_retries)
         => mr.pc = "loop"
    /\ (mr.max_retries >= 1 /\ Len(mr.outcomes) = mr.max_retries
           /\ AllTransient(Prefix(mr.outcomes, mr.max_retries - 1))
           /\ mr.outcomes[mr.max_retries].kind = "response")
         => /\ mr.pc = "returned"
            /\ mr.result = mr.outcomes[mr.max_retries]

C2_Witness ==
    /\ mr.max_retries = default_max_retries
    /\ Len(mr.outcomes) = mr.max_retries
    /\ AllTransient(Prefix(mr.outcomes, mr.max_retries - 1))
    /\ mr.outcomes[1].kind = "Timeout"
    /\ mr.outcomes[mr.max_retries] = Resp(200)
    /\ mr.pc = "returned"

(* the items of the pages before the first failing page *)
CollectedBefore(items, fail_page, per_page) ==
    IF fail_page = 0 THEN items
    ELSE Prefix(items, (fail_page - 1) * per_page)

(* C3: get_repo_data returns (None, "") exactly when the primary metadata  *)
(* fetch failed; otherwise it returns a record whose README text is empty  *)
(* when a README step failed and whose contributor and release lists are   *)
(* the items of the pages collected before the first failing page.         *)
C3_FaultIsolation ==
    grd.pc = "done" =>
       /\ grd.result.is_none <=> hist.call.meta_failed
       /\ grd.result.is_none => grd.result = NoneResult
       /\ ~grd.result.is_none =>
            /\ grd.result.metadata.name = grd.repo
            /\ grd.result.metadata.stars = Api(grd).repo_data.stargazers_count
            /\ hist.call.readme_failed => grd.result.readme = <<>>
            /\ grd.result.metadata.contributors =
                  CollectedBefore(Api(grd).contributors,
                                  hist.call.contrib_fail_page, grd.per_page)
            /\ grd.result.metadata.releases =
                  CollectedBefore(Api(grd).releases,
                                  hist.call.release_fail_page, grd.per_page)

C3_Witness ==
    /\ grd.pc = "done"
    /\ ~grd.result.is_none
    /\ hist.call.readme_failed
    /\ hist.call.lang_failed
    /\ hist.call.contrib_fail_page = 2
    /\ grd.result.metadata.contributors # <<>>
    /\ Len(grd.result.metadata.contributors) < Len(Api(grd).contributors)
    /\ hist.call.release_fail_page = 1
    /\ Api(grd).releases # <<>>

Subjects(triples) == {triples[i][1] : i \in 1..Len(triples)}

(* C4: a repository whose primary metadata fetch failed is in no           *)
(* downstream table: not in the repositories entity set and not the        *)
(* subject of a candidate triple.                                          *)
C4_FailedRepoExcluded ==
    rule.pc = "done" =>
       \A f \in hist.failed :
          /\ f \notin rule.repositories
          /\ f \notin rule.entity_files.repositories
          /\ f \notin Subjects(rule.triples_csv)

(* what the acquired record of folder f holds for a structured predicate *)
OwnValues(f, predicate) ==
    IF raw[f].metadata_json = <<>> THEN {}
    ELSE LET m == raw[f].metadata_json[1] IN
         CASE predicate = "uses_language" -> Range(m.languages)
           [] predicate = "has_license" ->
                 IF m.license = None THEN {} ELSE {m.license}
           [] predicate = "has_tag" -> Range(m.topics)
           [] OTHER -> {}

(* C5: every candidate triple (r, uses_language | has_license | has_tag, o) *)
(* has an object o that occurs in repository r's own record.               *)
C5_PerRepositoryFanOut ==
    rule.pc = "done" =>
       \A i \in 1..Len(rule.candidate_triples) :
          LET t == rule.candidate_triples[i] IN
          t[2] \in {"uses_language", "has_license", "has_tag"}
             => t[3] \in OwnValues(t[1], t[2])

(* C6: every repository whose metadata fetch succeeded with star count s   *)
(* has a candidate triple (R, has_stars, s).                               *)
C6_HasStarsTriple ==
    rule.pc = "done" =>
       \A f \in DOMAIN raw :
          raw[f].metadata_json # <<>> =>
             \E i \in 1..Len(rule.candidate_triples) :
                LET t == rule.candidate_triples[i] IN
                /\ t[1] = f
                /\ t[2] = "has_stars"
                /\ t[3] = raw[f].metadata_json[1].stars

EntitySets(x) == <<x.repositories, x.licenses, x.languages, x.tags,
                   x.releases>>

RECURSIVE process_in_order(_, _, _)
process_in_order(x, fs, order) ==
    IF order = <<>> THEN x
    ELSE process_in_order(process_repository(x, fs, Head(order)), fs,
                          Tail(order))

(* C9: whatever order process_repositories visits the folders in, the      *)
(* final entity sets are those of every other visiting order.              *)
C9_OrderIndependent ==
    (rule.pc \in {"generate", "done"}) =>
       \A order \in Orders(DOMAIN raw) :
          EntitySets(rule) = EntitySets(process_in_order(rule_init, raw, order))

C9_Witness ==
    /\ rule.pc = "done"
    /\ Cardinality(DOMAIN raw) = 2
    /\ \A f \in DOMAIN raw : raw[f].metadata_json # <<>>
    /\ Cardinality(rule.tags) = 2
    /\ Cardinality(rule.licenses) = 2

Records(fs) == {fs[f].metadata_json[1] :
                   f \in {g \in DOMAIN fs : fs[g].metadata_json # <<>>}}

(* C10: after process_repositories each entity table is the union, over    *)
(* the processed repositories, of the non-empty values of that type in the *)
(* acquired metadata records (languages, licenses, topics, releases).      *)
C10_TablesAreUnions ==
    (rule.pc \in {"generate", "done"}) =>
       /\ rule.languages = UNION {Range(m.languages) : m \in Records(raw)}
       /\ rule.licenses = {m.license : m \in {n \in Records(raw) :
                                                 n.license # None}}
       /\ rule.tags = UNION {Range(m.topics) : m \in Records(raw)}
       /\ rule.releases = UNION {Range(m.releases) : m \in Records(raw)}


(* the text from the first '[' or '{' to the last matching ']' or '}' *)
Opens(toks) == {i \in 1..Len(toks) : toks[i] \in {P("["), P("{")}}
FirstOpen(toks) == CHOOSE i \in Opens(toks) : \A j \in Opens(toks) : i <= j
Closes(toks) ==
    {i \in 1..Len(toks) :
        toks[i] = IF toks[FirstOpen(toks)] = P("[") THEN P("]") ELSE P("}")}
LastClose(toks) == CHOOSE i \in Closes(toks) : \A j \in Closes(toks) : j <= i
Embedded(toks) ==
    IF Opens(toks) = {} THEN ParseFail
    ELSE IF Closes(toks) = {} THEN ParseFail
    ELSE json_loads(SubSeq(toks, FirstOpen(toks), LastClose(toks)))

(* C7: when the completion is valid JSON with prose, a code fence or other *)
(* text around it, _extract_with_llm returns the JSON value embedded       *)
(* between the first '[' or '{' and the last matching ']' or '}'.          *)
C7_RecoversEmbeddedJSON ==
    (llm.last.repo_dir # <<>> /\ llm.last.outcome.kind = "completion"
        /\ Embedded(llm.last.outcome.content).ok)
      => llm.last.returned = Embedded(llm.last.outcome.content).val

(* C8: whatever the model gives for a repository, LLMExtractor.run goes on *)
(* to the next repository and ends with every collected triple in the      *)
(* saved triple file.                                                      *)
C8_FailureIsolated ==
    (llm.pc \in {"done", "crashed"}) =>
       /\ llm.todo = {}
       /\ llm.triples_file # <<>>
       /\ \A i \in 1..Len(llm.extracted_triples) :
             llm.extracted_triples[i] \in Range(llm.triples_file[1])


(* C11: make_request makes at most max_retries attempts; the i-th          *)
(* transient failure that is retried is followed by a sleep of 2^(i-1)     *)
(* seconds (2^attempt, attempt counted from 0); when every attempt fails   *)
(* transiently the last error is raised, and no sleep follows the final    *)
(* attempt.                                                                *)
C11_BackoffAndReraise ==
    /\ Len(mr.outcomes) <= mr.max_retries
    /\ \A i \in 1..Len(mr.sleeps) : mr.sleeps[i] = 2 ^ (i - 1)
    /\ mr.pc = "loop" => Len(mr.sleeps) = Len(mr.outcomes)
    /\ (mr.pc \in {"returned", "raised"} /\ mr.outcomes # <<>>)
         => Len(mr.sleeps) = Len(mr.outcomes) - 1
    /\ (mr.pc \in {"returned", "raised"} /\ mr.max_retries >= 1
           /\ AllTransient(mr.outcomes))
         => /\ mr.pc = "raised"
            /\ Len(mr.outcomes) = mr.max_retries
            /\ mr.result = mr.outcomes[mr.max_retries]

C11_Witness ==
    /\ mr.max_retries = default_max_retries
    /\ mr.pc = "raised"
    /\ Len(mr.outcomes) = mr.max_retries
    /\ AllTransient(mr.outcomes)
    /\ mr.result = Exc("ConnectionError")
    /\ mr.sleeps = <<1, 2>>

====
